---------------------------- MODULE Spec2Model ----------------------------
(***************************************************************************)
(* A model of evsieve's hook (src/stream/hook.rs): the Tracker, the        *)
(* Trigger state machine with its period= and sequential clauses, the      *)
(* EventDispatcher of the send-key= clause and the Hook that ties them     *)
(* together.                                                               *)
(***************************************************************************)
EXTENDS Integers, Sequences, FiniteSets, TLC

VARIABLES
    trigger,            \* Hook.trigger: [period, sequential, trackers, state]
    event_dispatcher,   \* Hook.event_dispatcher: [send_keys, activating_event]
    mark_withholdable,  \* Hook.mark_withholdable
    effects,            \* Hook.effects
    release_effects,    \* Hook.release_effects
    loopback,           \* the timer service: [next_token, scheduled, now]
    events_out,         \* the output vector of the last apply / apply_to_all call
    shared_state,       \* the State of the last call: the effects that ran on it
    caps_out,           \* the output vector of the last apply_to_all_caps call
    clone,              \* the Trigger that Trigger::clone_empty returned, if called
    call,               \* the last call made on the hook, with what it returned
    hist                \* per tracker: what the events so far did to it

vars == <<trigger, event_dispatcher, mark_withholdable, effects, release_effects,
          loopback, events_out, shared_state, caps_out, clone, call, hist>>

---------------------------------------------------------------------------
(* Bounds of the model.                                                    *)

\* The timer service hands out at most this many tokens in one run.
MaxTokens == 3
\* The clock of the timed specification stops here.
MaxTime == 4
\* The longest batch handed to apply_to_all.
MaxBatch == 2
\* Event values range over 0..MaxValue.
MaxValue == 2

---------------------------------------------------------------------------
(* Option, ExpirationTime, TrackerState, TriggerState, TriggerResponse.    *)

None == [tag |-> "None"]
Some(v) == [tag |-> "Some", value |-> v]

Never == [tag |-> "Never"]
Until(token) == [tag |-> "Until", token |-> token]

Inactive == [tag |-> "Inactive"]
Invalid == [tag |-> "Invalid"]
Active(expiration) == [tag |-> "Active", expiration |-> expiration]

\* TrackerState::is_active
StateIsActive(state) == state.tag = "Active"

---------------------------------------------------------------------------
(* Key, Range and Event, of which the hook uses only the interface.        *)

\* Range::new(min, max); a bound of None leaves that side open.
Range(min, max) == [min |-> min, max |-> max]

\* Range::contains
RangeContains(range, value) ==
    /\ (range.min.tag = "Some" => range.min.value <= value)
    /\ (range.max.tag = "Some" => value <= range.max.value)

\* A key names an event code and may carry a value range (key:a:1~).
Key(code, value) == [code |-> code, value |-> value]

\* Key::pop_value: the range of the key, if it has one.
PopValue(key) == key.value

\* Key::matches: the key's properties other than its value equal the event's.
KeyMatches(key, event) == key.code = event.code

\* Key::merge: the event with the properties the key names set to the key's.
KeyMerge(key, event) ==
    [event EXCEPT !.code = key.code]

Withholdable == "Withholdable"

FlagsSet(event, flag) == [event EXCEPT !.flags = @ \cup {flag}]
FlagsUnset(event, flag) == [event EXCEPT !.flags = @ \ {flag}]

\* A capability: an event code of a domain and the values it can take.
Capability(code, domain, value_range) ==
    [code |-> code, domain |-> domain, value_range |-> value_range]

\* CapMatch, and its order No < Maybe < Yes.
CapMatch == {"No", "Maybe", "Yes"}
CapMatchRank(cap_match) ==
    CASE cap_match = "No" -> 0 [] cap_match = "Maybe" -> 1 [] cap_match = "Yes" -> 2

\* Key::matches_cap: whether the key can match an event of the capability.
\* The hook takes the answer as it comes; matches is the answer for each
\* key and capability, by their codes.
KeyMatchesCap(key, cap, matches) == matches[<<key.code, cap.code>>]

\* Key::merge_cap: the capability with the properties the key names set to
\* the key's.
KeyMergeCap(key, cap) == [cap EXCEPT !.code = key.code]

---------------------------------------------------------------------------
(* Tracker                                                                 *)

\* Tracker::new
TrackerNew(key) ==
    [key   |-> [key EXCEPT !.value = None],
     range |-> IF PopValue(key).tag = "Some" THEN PopValue(key).value
               ELSE Range(Some(1), None),
     state |-> Inactive]

\* Tracker::matches
TrackerMatches(tracker, event) == KeyMatches(tracker.key, event)

\* Tracker::activates_by
ActivatesBy(tracker, event) == RangeContains(tracker.range, event.value)

\* Tracker::is_active
IsActive(tracker) == tracker.state.tag = "Active"

\* Mutant: the state of the tracker is cloned with it (Clone::clone).
TrackerCloneWhole(tracker) == tracker

\* Tracker::clone_empty
TrackerCloneEmpty(tracker) ==
    [key   |-> tracker.key,
     range |-> tracker.range,
     state |-> Inactive]

---------------------------------------------------------------------------
(* The timer service (loopback).                                           *)

\* LoopbackHandle::schedule_wakeup_in: a token no earlier call returned, and a
\* wakeup with it due once the duration has elapsed.
ScheduleWakeupIn(lb, duration) ==
    [token    |-> lb.next_token,
     loopback |-> [lb EXCEPT !.next_token = @ + 1,
                             !.scheduled = @ \cup {[token |-> lb.next_token,
                                                    due   |-> lb.now + duration]}]]

\* Mutant: a wakeup is scheduled whether or not the hook has a period.
AcquireAlways(period, lb) ==
    LET got == ScheduleWakeupIn(lb, IF period.tag = "Some" THEN period.value ELSE 0)
    IN  [expiration |-> Until(got.token), loopback |-> got.loopback]

\* acquire_expiration_token
AcquireExpirationToken(period, lb) ==
    IF period.tag = "Some"
    THEN LET got == ScheduleWakeupIn(lb, period.value)
         IN  [expiration |-> Until(got.token), loopback |-> got.loopback]
    ELSE [expiration |-> Never, loopback |-> lb]

---------------------------------------------------------------------------
(* Trigger                                                                 *)

\* Trigger::new
TriggerNew(keys, period, sequential) ==
    [period     |-> period,
     sequential |-> sequential,
     trackers   |-> [i \in DOMAIN keys |-> TrackerNew(keys[i])],
     state      |-> "Inactive"]

\* Mutant: an event in the range activates an Invalid tracker too.
TrackerStepRevives(tracker, event, period, lb) ==
    IF ActivatesBy(tracker, event)
    THEN IF tracker.state \in {Inactive, Invalid}
         THEN LET got == AcquireExpirationToken(period, lb)
              IN  [tracker  |-> [tracker EXCEPT !.state = Active(got.expiration)],
                   loopback |-> got.loopback]
         ELSE [tracker |-> tracker, loopback |-> lb]
    ELSE [tracker |-> [tracker EXCEPT !.state = Inactive], loopback |-> lb]

\* Mutant: an event outside the range resets an active tracker only.
TrackerStepInvalidSticks(tracker, event, period, lb) ==
    IF ActivatesBy(tracker, event)
    THEN IF tracker.state = Inactive
         THEN LET got == AcquireExpirationToken(period, lb)
              IN  [tracker  |-> [tracker EXCEPT !.state = Active(got.expiration)],
                   loopback |-> got.loopback]
         ELSE [tracker |-> tracker, loopback |-> lb]
    ELSE IF tracker.state = Invalid
         THEN [tracker |-> tracker, loopback |-> lb]
         ELSE [tracker |-> [tracker EXCEPT !.state = Inactive], loopback |-> lb]

\* The body of the loop of Trigger::apply over the trackers that match, for
\* one tracker: its new state and the loopback after it.
TrackerStep(tracker, event, period, lb) ==
    IF ActivatesBy(tracker, event)
    THEN IF tracker.state = Inactive
         THEN LET got == AcquireExpirationToken(period, lb)
              IN  [tracker  |-> [tracker EXCEPT !.state = Active(got.expiration)],
                   loopback |-> got.loopback]
         ELSE [tracker |-> tracker, loopback |-> lb]
    ELSE [tracker |-> [tracker EXCEPT !.state = Inactive], loopback |-> lb]

\* The first loop of Trigger::apply, over trackers[i..], in order.
RECURSIVE TrackerLoop(_, _, _, _, _)
TrackerLoop(trackers, i, event, period, lb) ==
    IF i > Len(trackers)
    THEN [trackers |-> trackers, loopback |-> lb]
    ELSE IF TrackerMatches(trackers[i], event)
         THEN LET step == TrackerStep(trackers[i], event, period, lb)
              IN  TrackerLoop([trackers EXCEPT ![i] = step.tracker], i + 1,
                              event, period, step.loopback)
         ELSE TrackerLoop(trackers, i + 1, event, period, lb)

\* Mutant: skip_while looks at the first tracker only.
AfterInactiveFirst(trackers) ==
    {i \in DOMAIN trackers : ~IsActive(trackers[1])}

\* The trackers that skip_while(is_active) lets through: all from the first
\* one that is not active.
AfterActivePrefix(trackers) ==
    {i \in DOMAIN trackers : \E j \in 1..i : ~IsActive(trackers[j])}

\* Mutant: the sequential clause invalidates nothing.
InvalidateNothing(trackers) == trackers

\* The sequential clause of Trigger::apply: invalidate the trackers that are
\* active but not consecutively so from the start.
InvalidateOutOfOrder(trackers) ==
    [i \in DOMAIN trackers |->
        IF i \in AfterActivePrefix(trackers) /\ IsActive(trackers[i])
        THEN [trackers[i] EXCEPT !.state = Invalid]
        ELSE trackers[i]]

\* all_trackers_active of Trigger::apply
AllTrackersActive(trackers) ==
    \A i \in DOMAIN trackers : StateIsActive(trackers[i].state)

\* Mutant: an active trigger stays Active when a tracker is released.
TransitionNoRelease(trig) ==
    IF trig.state = "Inactive" /\ AllTrackersActive(trig.trackers)
    THEN [trigger  |-> [trig EXCEPT
                          !.state = "Active",
                          !.trackers = [i \in DOMAIN trig.trackers |->
                              [trig.trackers[i] EXCEPT !.state = Active(Never)]]],
          response |-> "Activates"]
    ELSE [trigger |-> trig, response |-> "Matches"]

\* Mutant: the trackers keep their expiration when the trigger activates.
TransitionKeepsTokens(trig) ==
    LET all_trackers_active == AllTrackersActive(trig.trackers)
    IN  IF trig.state = "Inactive" /\ all_trackers_active
        THEN [trigger  |-> [trig EXCEPT !.state = "Active"],
              response |-> "Activates"]
        ELSE IF trig.state = "Active" /\ ~all_trackers_active
        THEN [trigger  |-> [trig EXCEPT !.state = "Inactive"],
              response |-> "Releases"]
        ELSE [trigger |-> trig, response |-> "Matches"]

\* Mutant: the trigger activates without recording that it is Active.
TransitionForgetful(trig) ==
    IF AllTrackersActive(trig.trackers)
    THEN [trigger  |-> [trig EXCEPT
                          !.trackers = [i \in DOMAIN trig.trackers |->
                              [trig.trackers[i] EXCEPT !.state = Active(Never)]]],
          response |-> "Activates"]
    ELSE [trigger |-> trig, response |-> "Matches"]

\* The match on (self.state, all_trackers_active) that ends Trigger::apply.
Transition(trig) ==
    LET all_trackers_active == AllTrackersActive(trig.trackers)
    IN  IF trig.state = "Inactive" /\ all_trackers_active
        THEN [trigger  |-> [trig EXCEPT
                              !.state = "Active",
                              !.trackers = [i \in DOMAIN trig.trackers |->
                                  [trig.trackers[i] EXCEPT !.state = Active(Never)]]],
              response |-> "Activates"]
        ELSE IF trig.state = "Active" /\ ~all_trackers_active
        THEN [trigger  |-> [trig EXCEPT !.state = "Inactive"],
              response |-> "Releases"]
        ELSE [trigger |-> trig, response |-> "Matches"]

\* Mutant: the sequential clause runs before the check that a tracker matched.
TriggerApplyOrdersFirst(trig, event, lb) ==
    LET any_tracker_matched ==
            \E i \in DOMAIN trig.trackers : TrackerMatches(trig.trackers[i], event)
        looped == TrackerLoop(trig.trackers, 1, event, trig.period, lb)
        ordered == IF trig.sequential
                   THEN InvalidateOutOfOrder(looped.trackers)
                   ELSE looped.trackers
        done == Transition([trig EXCEPT !.trackers = ordered])
    IN  IF ~any_tracker_matched
        THEN [trigger |-> [trig EXCEPT !.trackers = ordered], loopback |-> lb,
              response |-> "None"]
        ELSE [trigger |-> done.trigger, loopback |-> looped.loopback,
              response |-> done.response]

\* Trigger::apply
TriggerApply(trig, event, lb) ==
    LET any_tracker_matched ==
            \E i \in DOMAIN trig.trackers : TrackerMatches(trig.trackers[i], event)
        looped == TrackerLoop(trig.trackers, 1, event, trig.period, lb)
        ordered == IF trig.sequential
                   THEN InvalidateOutOfOrder(looped.trackers)
                   ELSE looped.trackers
        done == Transition([trig EXCEPT !.trackers = ordered])
    IN  IF ~any_tracker_matched
        THEN [trigger |-> trig, loopback |-> lb, response |-> "None"]
        ELSE [trigger |-> done.trigger, loopback |-> looped.loopback,
              response |-> done.response]

\* Mutant: wakeup invalidates every tracker that holds a token, whichever.
TriggerWakeupAnyToken(trig, token) ==
    LET expired == {i \in DOMAIN trig.trackers :
                       /\ trig.trackers[i].state.tag = "Active"
                       /\ trig.trackers[i].state.expiration.tag = "Until"}
    IN  [trigger |-> [trig EXCEPT !.trackers = [i \in DOMAIN trig.trackers |->
                         IF i \in expired
                         THEN [trig.trackers[i] EXCEPT !.state = Invalid]
                         ELSE trig.trackers[i]]],
         result  |-> expired # {}]

\* Mutant: wakeup invalidates the expired trackers and forgets to say so.
TriggerWakeupSilent(trig, token) ==
    [trigger |-> [trig EXCEPT !.trackers = [i \in DOMAIN trig.trackers |->
                     IF trig.trackers[i].state = Active(Until(token))
                     THEN [trig.trackers[i] EXCEPT !.state = Invalid]
                     ELSE trig.trackers[i]]],
     result  |-> FALSE]

\* Trigger::wakeup
TriggerWakeup(trig, token) ==
    LET expired == {i \in DOMAIN trig.trackers :
                       trig.trackers[i].state = Active(Until(token))}
    IN  [trigger |-> [trig EXCEPT !.trackers = [i \in DOMAIN trig.trackers |->
                         IF i \in expired
                         THEN [trig.trackers[i] EXCEPT !.state = Invalid]
                         ELSE trig.trackers[i]]],
         result  |-> expired # {}]

\* Trigger::clone_empty
TriggerCloneEmpty(trig) ==
    [sequential |-> trig.sequential,
     period     |-> trig.period,
     trackers   |-> [i \in DOMAIN trig.trackers |->
                        TrackerCloneEmpty(trig.trackers[i])],
     state      |-> "Inactive"]

---------------------------------------------------------------------------
(* EventDispatcher                                                         *)

\* EventDispatcher::from_send_keys
FromSendKeys(send_keys) == [send_keys |-> send_keys, activating_event |-> None]

\* Mutant: the additional event keeps the flags of the event it is merged onto.
AdditionalEventKeepsFlags(key, event, value) ==
    [KeyMerge(key, event) EXCEPT !.value = value]

\* The event map_event sends for one send-key: the key merged onto the event,
\* with the given value and without the Withholdable flag.
AdditionalEvent(key, event, value) ==
    FlagsUnset([KeyMerge(key, event) EXCEPT !.value = value], Withholdable)

\* The sequence s in reverse (Iterator::rev).
Rev(s) == [i \in 1..Len(s) |-> s[Len(s) + 1 - i]]

\* Mutant: the event that activates is not recorded.
MapActivatesNoRecord(ed, event, out) ==
    [event_dispatcher |-> ed,
     events_out |-> (out \o <<event>>)
                    \o [i \in 1..Len(ed.send_keys) |->
                            AdditionalEvent(ed.send_keys[i], event, 1)]]

\* The Activates arm of EventDispatcher::map_event
MapActivates(ed, event, out) ==
    [event_dispatcher |-> [ed EXCEPT !.activating_event = Some(event)],
     events_out |-> (out \o <<event>>)
                    \o [i \in 1..Len(ed.send_keys) |->
                            AdditionalEvent(ed.send_keys[i], event, 1)]]

\* Mutant: the release events are merged onto the releasing event.
MapReleasesOntoEvent(ed, event, out) ==
    LET keys == Rev(ed.send_keys)
    IN  [event_dispatcher |-> ed,
         events_out |-> (out \o [i \in 1..Len(keys) |->
                                    AdditionalEvent(keys[i], event, 0)])
                        \o <<event>>]

\* The Releases arm of EventDispatcher::map_event
MapReleases(ed, event, out) ==
    LET activating_event == IF ed.activating_event.tag = "Some"
                            THEN ed.activating_event.value
                            ELSE event
        keys == Rev(ed.send_keys)
    IN  [event_dispatcher |-> ed,
         events_out |-> (out \o [i \in 1..Len(keys) |->
                                    AdditionalEvent(keys[i], activating_event, 0)])
                        \o <<event>>]

\* Mutant: on Releases the event is passed on as on Matches.
MapEventNoReleases(ed, event, trigger_response, out) ==
    CASE trigger_response = "Activates" -> MapActivates(ed, event, out)
      [] OTHER -> [event_dispatcher |-> ed, events_out |-> out \o <<event>>]

\* EventDispatcher::map_event
MapEvent(ed, event, trigger_response, out) ==
    CASE trigger_response = "Activates" -> MapActivates(ed, event, out)
      [] trigger_response = "Releases"  -> MapReleases(ed, event, out)
      [] OTHER -> [event_dispatcher |-> ed, events_out |-> out \o <<event>>]

\* The greatest of the answers of the keys, as Iterator::max gives it: None
\* if there is no key.
MaxMatch(keys, cap_in, matches) ==
    IF keys = <<>> THEN None
    ELSE Some(CHOOSE m \in CapMatch :
                 /\ \E i \in DOMAIN keys : m = KeyMatchesCap(keys[i], cap_in, matches)
                 /\ \A i \in DOMAIN keys :
                       CapMatchRank(KeyMatchesCap(keys[i], cap_in, matches))
                           <= CapMatchRank(m))

\* The capability a send-key adds for an input capability.
NewCap(key, cap_in) ==
    [KeyMergeCap(key, cap_in) EXCEPT !.value_range = Range(Some(0), Some(1))]

\* Mutant: a capability that the keys may match is skipped.
SkipsCapMaybe(matches_cap) ==
    matches_cap \in {Some("No"), Some("Maybe"), None}

\* The match in the loop of generate_additional_caps: whether the input
\* capability is skipped.
SkipsCap(matches_cap) ==
    matches_cap \in {Some("No"), None}

\* The loop of EventDispatcher::generate_additional_caps over caps[i..]:
\* the HashSet additional_caps after it.
RECURSIVE AdditionalCapsLoop(_, _, _, _, _, _)
AdditionalCapsLoop(ed, keys, caps, matches, i, additional_caps) ==
    IF i > Len(caps) THEN additional_caps
    ELSE AdditionalCapsLoop(ed, keys, caps, matches, i + 1,
            IF SkipsCap(MaxMatch(keys, caps[i], matches))
            THEN additional_caps
            ELSE additional_caps \cup
                 {NewCap(ed.send_keys[k], caps[i]) : k \in DOMAIN ed.send_keys})

\* The orders in which a HashSet may hand out its elements.
Orderings(set) ==
    {order \in [1..Cardinality(set) -> set] :
        \A i, j \in DOMAIN order : order[i] = order[j] => i = j}

\* EventDispatcher::generate_additional_caps: the vectors caps_out may be
\* after it, the HashSet being appended in any order.
GenerateAdditionalCaps(ed, trig, caps, matches, out) ==
    LET keys == [i \in DOMAIN trig.trackers |-> trig.trackers[i].key]
        additional_caps == AdditionalCapsLoop(ed, keys, caps, matches, 1, {})
    IN  {out \o order : order \in Orderings(additional_caps)}

---------------------------------------------------------------------------
(* Hook                                                                    *)

\* The marking step of Hook::apply: the event as it is handed to map_event.
Mark(mark, event, response) ==
    IF mark /\ response \in {"Matches", "Activates", "Releases"}
    THEN FlagsSet(event, Withholdable)
    ELSE event

\* What the events so far did to each tracker, kept beside the hook to state
\* its properties: whether the tracker's last matching event was in its
\* range; when, with which expiration and after which other trackers it last
\* went from Inactive to Active; whether the trigger has activated in that
\* call or since; and the event of the last Activates response. Of the
\* dispatcher: whether map_event ever found no recorded activating event on
\* Releases; the value each send-key was last sent with (0 before the first);
\* and whether each send-key's values 1 and 0 took turns so far.
HistInit(trackers) ==
    [held       |-> [i \in DOMAIN trackers |-> FALSE],
     act_time   |-> [i \in DOMAIN trackers |-> 0],
     act_token  |-> [i \in DOMAIN trackers |-> Never],
     act_before |-> [i \in DOMAIN trackers |-> {}],
     fired      |-> [i \in DOMAIN trackers |-> FALSE],
     activated  |-> {},
     activator  |-> None,
     warned     |-> FALSE,
     sent       |-> <<>>,
     balanced   |-> TRUE]

\* The trackers that the first loop of Trigger::apply takes from Inactive to
\* Active.
NowActive(trackers, event) ==
    {i \in DOMAIN trackers : /\ TrackerMatches(trackers[i], event)
                             /\ ActivatesBy(trackers[i], event)
                             /\ trackers[i].state = Inactive}

HistApplied(h, ts, event, lb, looped, now_active, response) ==
    [held       |-> [i \in DOMAIN ts |->
                        IF TrackerMatches(ts[i], event)
                        THEN ActivatesBy(ts[i], event) ELSE h.held[i]],
     act_time   |-> [i \in DOMAIN ts |->
                        IF i \in now_active THEN lb.now ELSE h.act_time[i]],
     act_token  |-> [i \in DOMAIN ts |->
                        IF i \in now_active THEN looped[i].state.expiration
                        ELSE h.act_token[i]],
     act_before |-> [i \in DOMAIN ts |->
                        IF i \in now_active THEN h.activated \ now_active
                        ELSE h.act_before[i] \ now_active],
     fired      |-> [i \in DOMAIN ts |->
                        \/ response = "Activates"
                        \/ i \notin now_active /\ h.fired[i]],
     activated  |-> h.activated \cup now_active,
     activator  |-> IF response = "Activates" THEN Some(event) ELSE h.activator,
     warned     |-> h.warned,
     sent       |-> h.sent,
     balanced   |-> h.balanced]

\* The history of the send-keys after the events out[i..] were put out.
RECURSIVE HistSent(_, _, _, _)
HistSent(h, send_keys, out, i) ==
    IF i > Len(out) THEN h
    ELSE LET keys == {k \in DOMAIN send_keys : send_keys[k].code = out[i].code}
         IN  HistSent([h EXCEPT
                          !.balanced = @ /\ \A k \in keys :
                                               /\ out[i].value \in {0, 1}
                                               /\ out[i].value # h.sent[k],
                          !.sent = [k \in DOMAIN send_keys |->
                                       IF k \in keys THEN out[i].value
                                       ELSE h.sent[k]]],
                      send_keys, out, i + 1)

\* The history of the dispatcher after map_event, which found the dispatcher
\* ed and the output prior and left the output out.
HistMapped(h, ed, response, prior, out) ==
    HistSent([h EXCEPT !.warned = @ \/ (/\ response = "Releases"
                                         /\ ed.activating_event = None)],
             ed.send_keys, out, Len(prior) + 1)

HistApply(h, trig, event, lb, response) ==
    HistApplied(h, trig.trackers, event, lb,
                TrackerLoop(trig.trackers, 1, event, trig.period, lb).trackers,
                NowActive(trig.trackers, event), response)

\* An effect is a closure on the State. What is kept of the State is the log
\* of the effects that ran on it, each with the number of events that were
\* in the output vector when it ran.
Ran(effect, emitted) == [effect |-> effect, emitted |-> emitted]

\* Hook::apply_effects, with emitted events in the output vector.
ApplyEffects(hook_effects, hook_state, emitted) ==
    hook_state \o [k \in 1..Len(hook_effects) |-> Ran(hook_effects[k], emitted)]

\* Hook::apply_release_effects, with emitted events in the output vector.
ApplyReleaseEffects(hook_release_effects, hook_state, emitted) ==
    hook_state \o [k \in 1..Len(hook_release_effects) |->
                      Ran(hook_release_effects[k], emitted)]

\* Mutant: the effects run for every event that matches a tracker.
RunEffectsOnMatch(r, response, emitted) ==
    CASE response \in {"Activates", "Matches"} ->
            ApplyEffects(r.effects, r.state, emitted)
      [] response = "Releases" ->
            ApplyReleaseEffects(r.release_effects, r.state, emitted)
      [] OTHER -> r.state

\* The match on the response that ends Hook::apply.
RunEffects(r, response, emitted) ==
    CASE response = "Activates" ->
            ApplyEffects(r.effects, r.state, emitted)
      [] response = "Releases" ->
            ApplyReleaseEffects(r.release_effects, r.state, emitted)
      [] OTHER -> r.state

\* Hook::apply after its call of Trigger::apply, which returned applied, on a
\* run r = [trigger, event_dispatcher, effects, release_effects, loopback,
\* events_out, state, hist, responses] of the hook over a batch.
HookApplied(r, mark, event, applied) ==
    LET mapped == MapEvent(r.event_dispatcher,
                           Mark(mark, event, applied.response),
                           applied.response, r.events_out)
    IN  [trigger          |-> applied.trigger,
         event_dispatcher |-> mapped.event_dispatcher,
         effects          |-> r.effects,
         release_effects  |-> r.release_effects,
         loopback         |-> applied.loopback,
         events_out       |-> mapped.events_out,
         state            |-> RunEffects(r, applied.response,
                                         Len(mapped.events_out)),
         hist             |-> HistMapped(
                                  HistApply(r.hist, r.trigger, event, r.loopback,
                                            applied.response),
                                  r.event_dispatcher, applied.response,
                                  r.events_out, mapped.events_out),
         responses        |-> Append(r.responses, applied.response)]

\* Hook::apply
HookApply(r, mark, event) ==
    HookApplied(r, mark, event, TriggerApply(r.trigger, event, r.loopback))

\* Mutant: the loop takes the events from the last to the first.
RECURSIVE ApplyLoopBackwards(_, _, _, _)
ApplyLoopBackwards(r, mark, events, i) ==
    IF i > Len(events) THEN r
    ELSE ApplyLoopBackwards(HookApply(r, mark, events[Len(events) + 1 - i]),
                            mark, events, i + 1)

\* Hook::apply_to_all: the loop over events[i..].
RECURSIVE ApplyLoop(_, _, _, _)
ApplyLoop(r, mark, events, i) ==
    IF i > Len(events) THEN r
    ELSE ApplyLoop(HookApply(r, mark, events[i]), mark, events, i + 1)

---------------------------------------------------------------------------
(* The configurations and inputs the hook is run on.                       *)

\* The period of the hooks that have a period= clause.
Period == 2

Periods == {None, Some(Period)}

\* key:1, key:2, key:3 with the default range; key:1:2 for a second tracker
\* of the same key with a narrower range.
K(code) == Key(code, None)
KeyLists ==
    { <<K(1)>>,
      <<K(1), K(2)>>,
      <<K(1), K(2), K(3)>>,
      <<K(1), Key(1, Some(Range(Some(2), Some(2))))>> }

SendKeyLists == { <<>>, <<K(8)>>, <<K(8), K(9)>> }

Tokens == 1..MaxTokens

\* The events of the runs that look at the trigger.
TriggerEvents ==
    [code : 1..3, value : 0..MaxValue, flags : {{}}, domain : {1}]

\* The events of the timed runs: a press and a release of key:1 and key:2.
TimedEvents ==
    [code : 1..2, value : 0..1, flags : {{}}, domain : {1}]

Event(code, value, flags, domain) ==
    [code |-> code, value |-> value, flags |-> flags, domain |-> domain]

\* The events of the runs that look at the hook's output: presses and
\* a release of key:1 and key:2 and an event of another key, from two
\* domains, some already marked Withholdable by an earlier hook.
HookEvents ==
    { Event(1, 1, {}, 1), Event(1, 0, {Withholdable}, 2),
      Event(2, MaxValue, {Withholdable}, 2), Event(3, 1, {}, 1) }

\* The events of the runs that look at Hook::apply on one event: key:1,
\* key:2 and key:3 pressed, key:1 released, and two events of key:4, one of
\* them marked Withholdable by an earlier hook.
ApplyEvents ==
    { Event(1, 1, {}, 1), Event(2, 1, {}, 1), Event(3, 1, {}, 1),
      Event(1, 0, {}, 1), Event(4, 1, {}, 1), Event(4, 0, {Withholdable}, 2) }

\* The batches of at most n events.
Batches(events, n) == UNION {[1..k -> events] : k \in 0..n}

\* The batches of the runs that look at the effects: the batches of events
\* of the hook's keys, and an event of another key alone or before one of
\* them.
EffectEvents == {event \in HookEvents : event.code \in 1..2}
EffectBatches ==
    Batches(EffectEvents, MaxBatch)
        \cup {<<other>> \o events : other \in HookEvents \ EffectEvents,
                                    events \in Batches(EffectEvents, 1)}

\* What the caller's output vector holds before a call on the hook whose
\* output is looked at: an event of an earlier call.
PriorOut == <<Event(7, 1, {}, 1)>>

\* The effects that add_effect registers, in this order.
EffectsToAdd == <<"a", "b">>

\* The capabilities handed to apply_to_all_caps: of key:1 and key:3 in one
\* domain and of key:1 in a second domain.
CapA == Capability(1, 1, Range(Some(0), Some(1)))
CapB == Capability(3, 1, Range(Some(0), Some(MaxValue)))
CapC == Capability(1, 2, Range(Some(0), Some(MaxValue)))
CapLists ==
    { <<>>, <<CapA>>, <<CapB, CapA>>, <<CapC, CapB, CapA>> }

\* The events that bring the hook to the states in which its capabilities
\* are asked for: key:1 and key:2 pressed, key:2 released.
CapsEvents == { Event(1, 1, {}, 1), Event(2, 1, {}, 1), Event(2, 0, {}, 1) }

\* What the caller's vector holds before apply_to_all_caps.
PriorCaps == <<Capability(7, 1, Range(Some(0), Some(1)))>>

\* The answers Key::matches_cap may give for the tracker keys and the
\* capabilities, by their codes: any for a capability of key:1, No for one
\* of key:3, which is no key of the hook.
MatchTables ==
    {matches \in [(1..2) \X {1, 3} -> CapMatch] :
        matches[<<1, 3>>] = "No" /\ matches[<<2, 3>>] = "No"}

NoCall ==
    [op |-> "new", events |-> <<>>, prior |-> <<>>, responses |-> <<>>,
     token |-> 0, result |-> FALSE, caps |-> <<>>, matches |-> <<>>]

---------------------------------------------------------------------------
(* The state machine.                                                      *)

InitWith(keylists, periods, sequentials, sendkeylists, marks) ==
    /\ \E keys \in keylists, period \in periods, seq \in sequentials :
          trigger = TriggerNew(keys, period, seq)
    /\ \E send_keys \in sendkeylists : event_dispatcher = FromSendKeys(send_keys)
    /\ mark_withholdable \in marks
    /\ effects = <<>>
    /\ release_effects = <<>>
    /\ loopback = [next_token |-> 1, scheduled |-> {}, now |-> 0]
    /\ events_out = <<>>
    /\ shared_state = <<>>
    /\ caps_out = <<>>
    /\ clone = None
    /\ call = NoCall
    /\ hist = [HistInit(trigger.trackers) EXCEPT
                  !.sent = [k \in DOMAIN event_dispatcher.send_keys |-> 0]]

\* What a call of the hook leaves alone.
hook_config == <<mark_withholdable, effects, release_effects>>

\* Hook::add_effect, called while the hook is set up.
AddEffect ==
    /\ call.op \in {"new", "add_effect"}
    /\ Len(effects) < Len(EffectsToAdd)
    /\ effects' = Append(effects, EffectsToAdd[Len(effects) + 1])
    /\ call' = [NoCall EXCEPT !.op = "add_effect"]
    /\ UNCHANGED <<trigger, event_dispatcher, mark_withholdable, release_effects,
                   loopback, events_out, shared_state, caps_out, clone, hist>>

\* Hook::apply_to_all(events, events_out, state, ..) with events_out holding
\* prior and a State on which no effect has run.
ApplyToAll(events, prior) ==
    \E r \in {ApplyLoop([trigger          |-> trigger,
                        event_dispatcher |-> event_dispatcher,
                        effects          |-> effects,
                        release_effects  |-> release_effects,
                        loopback         |-> loopback,
                        events_out       |-> prior,
                        state            |-> <<>>,
                        hist             |-> hist,
                        responses        |-> <<>>],
                       mark_withholdable, events, 1)} :
        /\ r.loopback.next_token <= MaxTokens + 1
        /\ trigger' = r.trigger
        /\ event_dispatcher' = r.event_dispatcher
        /\ loopback' = r.loopback
        /\ events_out' = r.events_out
        /\ shared_state' = r.state
        /\ hist' = r.hist
        /\ call' = [NoCall EXCEPT !.op = "apply_to_all", !.events = events,
                                  !.prior = prior, !.responses = r.responses]
        /\ UNCHANGED <<hook_config, caps_out, clone>>

\* Hook::apply_to_all_caps(caps, caps_out) with caps_out holding prior.
ApplyToAllCaps(caps, prior, matches) ==
    /\ caps_out' \in GenerateAdditionalCaps(event_dispatcher, trigger, caps,
                                             matches, prior \o caps)
    /\ call' = [NoCall EXCEPT !.op = "apply_to_all_caps", !.caps = caps,
                              !.prior = prior, !.matches = matches]
    /\ UNCHANGED <<trigger, event_dispatcher, hook_config, loopback, events_out,
                   shared_state, clone, hist>>

\* What a call on the clone leaves alone: the hook and all that is its.
hook_and_output ==
    <<trigger, event_dispatcher, hook_config, events_out, shared_state,
      caps_out, hist>>

\* Trigger::clone_empty on the hook's trigger; the clone is kept beside it.
CloneEmpty ==
    /\ clone' = Some(TriggerCloneEmpty(trigger))
    /\ call' = [NoCall EXCEPT !.op = "clone_empty"]
    /\ UNCHANGED <<hook_and_output, loopback>>

\* Trigger::apply on the clone.
CloneApply(event) ==
    /\ clone # None
    /\ \E applied \in {TriggerApply(clone.value, event, loopback)} :
          /\ applied.loopback.next_token <= MaxTokens + 1
          /\ clone' = Some(applied.trigger)
          /\ loopback' = applied.loopback
          /\ call' = [NoCall EXCEPT !.op = "clone.apply", !.events = <<event>>,
                                    !.responses = <<applied.response>>]
    /\ UNCHANGED hook_and_output

\* Trigger::wakeup on the clone.
CloneWakeup(token) ==
    /\ clone # None
    /\ LET woken == TriggerWakeup(clone.value, token)
       IN  /\ clone' = Some(woken.trigger)
           /\ call' = [NoCall EXCEPT !.op = "clone.wakeup", !.token = token,
                                     !.result = woken.result]
    /\ UNCHANGED <<hook_and_output, loopback>>

\* Hook::wakeup(token); call.result is what Trigger::wakeup returned.
HookWakeup(token) ==
    LET woken == TriggerWakeup(trigger, token)
    IN  /\ trigger' = woken.trigger
        /\ call' = [NoCall EXCEPT !.op = "wakeup", !.token = token,
                                  !.result = woken.result]
        /\ UNCHANGED <<event_dispatcher, hook_config, events_out, shared_state,
                       caps_out, clone, hist>>

\* A wakeup with any token, at any moment: late, early, repeated or unknown.
Wakeup(token) ==
    /\ HookWakeup(token)
    /\ UNCHANGED loopback

\* The timer service delivers a scheduled wakeup that is due, once.
Deliver(s) ==
    /\ s.due <= loopback.now
    /\ HookWakeup(s.token)
    /\ loopback' = [loopback EXCEPT !.scheduled = @ \ {s}]

\* Time passes, once every wakeup that is due has been delivered.
Tick ==
    /\ loopback.now < MaxTime
    /\ \A s \in loopback.scheduled : s.due > loopback.now
    /\ loopback' = [loopback EXCEPT !.now = @ + 1]
    /\ call' = [NoCall EXCEPT !.op = "tick"]
    /\ UNCHANGED <<trigger, event_dispatcher, hook_config, events_out, shared_state,
                   caps_out, clone, hist>>

\* The trigger under single events and arbitrary wakeups.
Init == InitWith(KeyLists, Periods, BOOLEAN, {<<K(8), K(9)>>}, {FALSE})

Next ==
    \/ \E event \in TriggerEvents : ApplyToAll(<<event>>, <<>>)
    \/ \E token \in Tokens : Wakeup(token)

Spec == Init /\ [][Next]_vars

\* The trigger with a period, under a clock and wakeups delivered when due.
InitTimed ==
    InitWith({<<K(1), K(2)>>}, {Some(Period)}, BOOLEAN, {<<K(8), K(9)>>}, {FALSE})

NextTimed ==
    \/ \E event \in TimedEvents : ApplyToAll(<<event>>, <<>>)
    \/ \E s \in loopback.scheduled : Deliver(s)
    \/ Tick

SpecTimed == InitTimed /\ [][NextTimed]_vars

\* The hook's output, under batches of events.
InitHook ==
    InitWith({<<K(1), K(2)>>}, {None}, {FALSE}, SendKeyLists, BOOLEAN)

NextHook ==
    \/ \E events \in Batches(HookEvents, MaxBatch) : ApplyToAll(events, PriorOut)
    \/ \E token \in Tokens : Wakeup(token)

SpecHook == InitHook /\ [][NextHook]_vars

\* The whole hook: a trigger with a period, marking, effects registered at
\* set-up, batches of events and arbitrary wakeups.
InitEffects ==
    InitWith({<<K(1), K(2)>>}, {Some(Period)}, {FALSE}, {<<K(8), K(9)>>}, {TRUE})

NextEffects ==
    \/ AddEffect
    \/ \E events \in EffectBatches : ApplyToAll(events, PriorOut)
    \/ \E token \in Tokens : Wakeup(token)

SpecEffects == InitEffects /\ [][NextEffects]_vars

\* The whole hook with three trackers, under single events and arbitrary
\* wakeups.
InitApply ==
    InitWith({<<K(1), K(2), K(3)>>}, {Some(Period)}, BOOLEAN, {<<K(8)>>}, BOOLEAN)

NextApply ==
    \/ AddEffect
    \/ \E event \in ApplyEvents : ApplyToAll(<<event>>, PriorOut)
    \/ \E token \in Tokens : Wakeup(token)

SpecApply == InitApply /\ [][NextApply]_vars

\* The capabilities of the hook's output, asked for in any state of the hook.
InitCaps ==
    InitWith({<<>>, <<K(1), K(2)>>}, {None}, {FALSE}, SendKeyLists, {FALSE})

NextCaps ==
    \/ \E event \in CapsEvents : ApplyToAll(<<event>>, <<>>)
    \/ \E caps \in CapLists, matches \in MatchTables :
          ApplyToAllCaps(caps, PriorCaps, matches)

SpecCaps == InitCaps /\ [][NextCaps]_vars

\* A trigger and its clone, each under events and arbitrary wakeups.
InitClone ==
    InitWith({<<K(1), K(2)>>}, Periods, BOOLEAN, {<<>>}, {FALSE})

NextClone ==
    \/ \E event \in TimedEvents : ApplyToAll(<<event>>, <<>>)
    \/ \E token \in Tokens : Wakeup(token)
    \/ CloneEmpty
    \/ \E event \in TimedEvents : CloneApply(event)
    \/ \E token \in Tokens : CloneWakeup(token)

SpecClone == InitClone /\ [][NextClone]_vars

---------------------------------------------------------------------------
(* The properties.                                                         *)

\* The last call was apply on one event, and what went in and came out.
Applied == call.op = "apply_to_all" /\ Len(call.events) = 1
LastEvent == call.events[1]
LastResponse == call.responses[1]

TrackerIds == DOMAIN trigger.trackers

\* Tracker i of trigger t is_active().
ActiveIn(t, i) == t.trackers[i].state.tag = "Active"
AllActiveIn(t) == \A i \in DOMAIN t.trackers : ActiveIn(t, i)

\* Tracker i's key is that of the event, and the value is in its range.
Concerns(i, event) == trigger.trackers[i].key.code = event.code
Presses(i, event) ==
    /\ Concerns(i, event)
    /\ RangeContains(trigger.trackers[i].range, event.value)
Lifts(i, event) ==
    /\ Concerns(i, event)
    /\ ~RangeContains(trigger.trackers[i].range, event.value)

\* What a step of a non-sequential trigger does to "all trackers are active",
\* and what apply returns for it.
C1_Step ==
    ~trigger.sequential =>
        /\ call'.op = "wakeup" => (AllActiveIn(trigger') <=> AllActiveIn(trigger))
        /\ call'.op = "apply_to_all" /\ Len(call'.events) = 1 =>
            LET event == call'.events[1]
                response == call'.responses[1]
                matched == \E i \in TrackerIds : Concerns(i, event)
                was == AllActiveIn(trigger)
                is == AllActiveIn(trigger')
            IN  /\ response = "Activates" <=> (~was /\ is)
                /\ response = "Releases" <=> (was /\ ~is)
                /\ response = "Matches" <=> (matched /\ (was <=> is))
                /\ response = "None" <=> ~matched

\* C1: in a non-sequential trigger the trackers are not all active at first;
\* apply returns Activates exactly when it takes the trigger from "not all
\* trackers active" to "all trackers active", Releases exactly when it takes
\* it back, Matches for every other event that matches a tracker and None for
\* the rest; and no wakeup starts or ends an interval of all trackers being
\* active. So Activates and Releases alternate, Activates first, one of each
\* per maximal interval.
C1_ActivatesOncePerInterval ==
    /\ ~AllActiveIn(trigger)
    /\ [][C1_Step]_vars

C1_Witness ==
    /\ ~trigger.sequential
    /\ Len(trigger.trackers) >= 2
    /\ Applied /\ LastResponse = "Releases"
    /\ LastEvent.value = 0

\* After a matching apply of a sequential trigger, a held tracker behind a
\* tracker that is not active is Invalid.
C2_Excluded ==
    trigger.sequential /\ Applied /\ LastResponse # "None" =>
        \A i \in TrackerIds :
            hist.held[i] /\ (\E j \in 1..(i - 1) : ~ActiveIn(trigger, j))
                => trigger.trackers[i].state = Invalid

\* How a tracker of a sequential trigger leaves Invalid and becomes active.
C2_Step ==
    trigger.sequential =>
        \A i \in TrackerIds :
            /\ trigger.trackers[i].state = Invalid =>
                  \/ trigger'.trackers[i].state = Invalid
                  \/ /\ trigger'.trackers[i].state = Inactive
                     /\ call'.op = "apply_to_all"
                     /\ Lifts(i, call'.events[1])
            /\ ~ActiveIn(trigger, i) /\ ActiveIn(trigger', i) =>
                  /\ trigger.trackers[i].state = Inactive
                  /\ call'.op = "apply_to_all"
                  /\ Presses(i, call'.events[1])
                  /\ \A j \in 1..(i - 1) : ActiveIn(trigger', j)

\* C2: in a sequential trigger, after every apply in which a tracker matched,
\* a tracker whose last matching event was in its range while an earlier
\* tracker is not active is Invalid; an Invalid tracker stays Invalid until
\* an event of its key outside its range makes it Inactive; and a tracker
\* becomes active only from Inactive, by an event in its range, with all
\* earlier trackers active after that call.
C2_OutOfOrderIsInvalid ==
    /\ [](C2_Excluded)
    /\ [][C2_Step]_vars

C2_Witness ==
    /\ trigger.sequential
    /\ Len(trigger.trackers) >= 2
    /\ Applied /\ Presses(2, LastEvent)
    /\ ~ActiveIn(trigger, 1)
    /\ trigger.trackers[2].state = Invalid

\* C3: a sequential trigger returns Activates only when no tracker's current
\* activation happened in an earlier apply call than that of the tracker
\* before it.
C3_ActivatesInOrder ==
    trigger.sequential /\ Applied /\ LastResponse = "Activates" =>
        \A i \in TrackerIds \ {1} : i \notin hist.act_before[i - 1]

C3_Witness ==
    /\ trigger.sequential
    /\ Applied /\ LastResponse = "Activates"
    /\ Len(trigger.trackers) = 3
    /\ hist.act_before[3] = {1, 2}
    /\ hist.act_before[2] = {1}

\* C4: whenever a trigger with a period returns Activates, with every wakeup
\* delivered when due, every tracker's current activation (its last step from
\* Inactive to Active) lies within the period of the earliest of them.
C4_ActivatesWithinPeriod ==
    Applied /\ LastResponse = "Activates" =>
        \A i, j \in TrackerIds :
            hist.act_time[i] - hist.act_time[j] <= trigger.period.value

\* The tracker i of a trigger with a period was last activated with the token,
\* and no event has reset it since.
ActivatedWith(i, token) ==
    /\ trigger.period.tag = "Some"
    /\ hist.act_token[i] = Until(token)
    /\ hist.held[i]

\* C5 as stated: wakeup(T) invalidates every tracker that was activated with
\* T and not reset since, and returns true.
C5_WakeupInvalidates ==
    [][call'.op = "wakeup" =>
        \A i \in TrackerIds :
            ActivatedWith(i, call'.token) =>
                /\ trigger'.trackers[i].state = Invalid
                /\ call'.result]_vars

\* C5 as amended: wakeup(T) invalidates every tracker that was activated with
\* T, not reset since and still active, in a trigger that has not activated
\* in or since the call that activated the tracker, and returns true.
C5_WakeupInvalidatesPending ==
    [][call'.op = "wakeup" =>
        \A i \in TrackerIds :
            /\ ActivatedWith(i, call'.token)
            /\ ~hist.fired[i]
            /\ ActiveIn(trigger, i)
            => /\ trigger'.trackers[i].state = Invalid
               /\ call'.result]_vars

C5_Witness ==
    /\ call.op = "wakeup" /\ call.result
    /\ \E i \in TrackerIds :
          /\ ActivatedWith(i, call.token)
          /\ ~hist.fired[i]
          /\ trigger.trackers[i].state = Invalid

\* What a step does to an Invalid tracker, and what apply returns then.
C6_Step ==
    \A i \in TrackerIds :
        trigger.trackers[i].state = Invalid =>
            /\ \/ trigger'.trackers[i].state = Invalid
               \/ /\ trigger'.trackers[i].state = Inactive
                  /\ call'.op = "apply_to_all"
                  /\ Lifts(i, call'.events[1])
            /\ call'.op = "apply_to_all" =>
                  \A k \in DOMAIN call'.responses : call'.responses[k] # "Activates"

\* C6: an Invalid tracker stays Invalid, or becomes Inactive by an event of
\* its key outside its range: no event in its range and no wakeup makes it
\* Active; and apply does not return Activates when a tracker was Invalid
\* before the call.
C6_InvalidNeedsRelease == [][C6_Step]_vars

\* Scenario C: key:1 expired, then key:2 is pressed.
C6_Witness ==
    /\ ~trigger.sequential
    /\ Len(trigger.trackers) = 2
    /\ trigger.trackers[1].state = Invalid
    /\ ActiveIn(trigger, 2)
    /\ Applied /\ Presses(2, LastEvent) /\ LastResponse = "Matches"

\* A trigger without a period holds no token and has asked for no wakeup.
C7_State ==
    trigger.period = None =>
        /\ \A i \in TrackerIds :
              ActiveIn(trigger, i) => trigger.trackers[i].state = Active(Never)
        /\ loopback.next_token = 1
        /\ loopback.scheduled = {}

\* A wakeup of a trigger without a period does nothing.
C7_Step ==
    trigger.period = None /\ call'.op = "wakeup" =>
        /\ trigger'.trackers = trigger.trackers
        /\ trigger'.state = trigger.state
        /\ ~call'.result

\* C7: in a trigger without a period every active tracker holds Never, no
\* wakeup has been asked for, and no wakeup, with any token, changes a
\* tracker or the trigger state or returns true.
C7_NoPeriodNoExpiry ==
    /\ [](C7_State)
    /\ [][C7_Step]_vars

C7_Witness ==
    /\ trigger.period = None
    /\ call.op = "wakeup"
    /\ \E i, j \in TrackerIds : ActiveIn(trigger, i) /\ ~ActiveIn(trigger, j)

---------------------------------------------------------------------------
(* The properties of the hook's output.                                    *)

SendKeys == event_dispatcher.send_keys
SendCodes == {SendKeys[k].code : k \in DOMAIN SendKeys}

\* The event a send-key makes of an event: the key's code, the given value,
\* the event's domain, and its flags without Withholdable.
Synthesized(key, event, value) ==
    [code |-> key.code, value |-> value,
     flags |-> event.flags \ {Withholdable}, domain |-> event.domain]

\* The events are the same but for their flags.
SameButFlags(a, b) ==
    a.code = b.code /\ a.value = b.value /\ a.domain = b.domain

\* How many events an input with this response puts out.
Size(response) ==
    IF response \in {"Activates", "Releases"} THEN 1 + Len(SendKeys) ELSE 1

\* How many events are in the output before those of input i of the last call.
RECURSIVE Offset(_)
Offset(i) ==
    IF i = 1 THEN Len(call.prior)
    ELSE Offset(i - 1) + Size(call.responses[i - 1])

\* Where input i itself is in the output, and where its synthesized events.
OriginalAt(i) ==
    IF call.responses[i] = "Releases" THEN Offset(i + 1) ELSE Offset(i) + 1
SynthesizedAt(i) == ((Offset(i) + 1)..Offset(i + 1)) \ {OriginalAt(i)}

\* C8: on Activates for E the hook appends E, then each send-key pressed, in
\* configured order, merged onto E; on Releases for E2 it appends each
\* send-key released, in reverse order, merged onto the event of the last
\* Activates, then E2.
C8_SendKeysPressedAndReleased ==
    Applied =>
        LET n == Len(SendKeys)
            p == Len(call.prior)
        IN  /\ LastResponse = "Activates" =>
                /\ Len(events_out) = p + 1 + n
                /\ SubSeq(events_out, 1, p) = call.prior
                /\ SameButFlags(events_out[p + 1], LastEvent)
                /\ \A k \in 1..n :
                      events_out[p + 1 + k] = Synthesized(SendKeys[k], LastEvent, 1)
            /\ LastResponse = "Releases" =>
                /\ hist.activator.tag = "Some"
                /\ Len(events_out) = p + n + 1
                /\ SubSeq(events_out, 1, p) = call.prior
                /\ \A k \in 1..n :
                      events_out[p + k] =
                          Synthesized(SendKeys[n + 1 - k], hist.activator.value, 0)
                /\ SameButFlags(events_out[p + n + 1], LastEvent)

C8_Witness ==
    /\ Applied /\ LastResponse = "Releases"
    /\ Len(SendKeys) = 2
    /\ hist.activator.tag = "Some"
    /\ hist.activator.value.domain # LastEvent.domain

\* C9: the output of apply_to_all is what was in the vector, then for each
\* input in order its own output: the input itself, once, after it the
\* presses if it activated the trigger, before it the releases if it released
\* the trigger, and nothing else.
C9_OutputIsConcatenation ==
    call.op = "apply_to_all" =>
        LET n == Len(call.events)
        IN  /\ Len(call.responses) = n
            /\ Len(events_out) = Offset(n + 1)
            /\ SubSeq(events_out, 1, Len(call.prior)) = call.prior
            /\ \A i \in 1..n :
                  /\ SameButFlags(events_out[OriginalAt(i)], call.events[i])
                  /\ \A at \in SynthesizedAt(i) :
                        /\ events_out[at].code \in SendCodes
                        /\ events_out[at].value =
                              IF call.responses[i] = "Activates" THEN 1 ELSE 0
            /\ Cardinality({at \in (Len(call.prior) + 1)..Len(events_out) :
                               events_out[at].code \notin SendCodes}) = n

C9_Witness ==
    /\ call.op = "apply_to_all"
    /\ call.responses = <<"Activates", "Releases">>
    /\ Len(SendKeys) = 2
    /\ Len(events_out) = Len(call.prior) + 6

\* C10: with mark_withholdable the input comes out with the Withholdable flag
\* added when the response is Matches, Activates or Releases, and with its
\* flags as they were when it is None; without mark_withholdable it comes out
\* with its flags as they were; and no synthesized event is Withholdable.
C10_Withholdable ==
    call.op = "apply_to_all" =>
        \A i \in 1..Len(call.events) :
            /\ events_out[OriginalAt(i)].flags =
                  IF mark_withholdable /\ call.responses[i] # "None"
                  THEN call.events[i].flags \cup {Withholdable}
                  ELSE call.events[i].flags
            /\ \A at \in SynthesizedAt(i) :
                  Withholdable \notin events_out[at].flags

C10_Witness ==
    /\ Applied /\ LastResponse = "Releases"
    /\ Len(SendKeys) = 2
    /\ Withholdable \in event_dispatcher.activating_event.value.flags
    /\ Withholdable \notin events_out[Len(call.prior) + 1].flags

---------------------------------------------------------------------------
(* More properties of the trigger.                                         *)

\* The trackers whose stored expiry is the token.
Holding(token) ==
    {i \in TrackerIds : trigger.trackers[i].state = Active(Until(token))}

\* What a wakeup does, by the trackers whose stored expiry is its token.
C12_Step ==
    call'.op = "wakeup" =>
        LET hit == Holding(call'.token)
        IN  /\ call'.result <=> hit # {}
            /\ DOMAIN trigger'.trackers = TrackerIds
            /\ \A i \in TrackerIds :
                  trigger'.trackers[i] =
                      IF i \in hit
                      THEN [trigger.trackers[i] EXCEPT !.state = Invalid]
                      ELSE trigger.trackers[i]
            /\ trigger'.state = trigger.state
            /\ trigger'.period = trigger.period
            /\ trigger'.sequential = trigger.sequential
            /\ hit = {} => trigger' = trigger

\* Tokens are unique: a token is stored by at most one tracker, and it is
\* one that the timer service has handed out.
C12_TokensUnique ==
    \A i \in TrackerIds :
        ActiveIn(trigger, i) /\ trigger.trackers[i].state.expiration # Never =>
            /\ trigger.trackers[i].state.expiration.token < loopback.next_token
            /\ Holding(trigger.trackers[i].state.expiration.token) = {i}

\* C12: wakeup(token) returns true iff a tracker is in state
\* Active(Until(token)), and then those trackers become Invalid and nothing
\* else changes; when no tracker's stored expiry is the token, wakeup
\* returns false and leaves the trackers and the trigger state as they were;
\* for wakeups with any token at any moment, any number of times.
C12_StaleWakeupIsHarmless ==
    /\ [](C12_TokensUnique)
    /\ [][C12_Step]_vars

\* A wakeup with the token of a tracker's earlier activation, after the
\* tracker was released and activated again with a newer token.
C12_Witness ==
    /\ call.op = "wakeup" /\ ~call.result
    /\ \E i \in TrackerIds :
          /\ hist.activated = {i}
          /\ ActiveIn(trigger, i)
          /\ trigger.trackers[i].state.expiration # Never
          /\ call.token < trigger.trackers[i].state.expiration.token

C16_State ==
    trigger.state = "Active" =>
        \A i \in TrackerIds : trigger.trackers[i].state = Active(Never)

\* A wakeup changes nothing of an Active trigger, and the trigger leaves
\* Active only by an apply that returns Releases, for an event of a tracker's
\* key outside its range.
C16_Step ==
    /\ trigger.state = "Active" /\ call'.op = "wakeup" =>
          trigger' = trigger /\ ~call'.result
    /\ trigger.state = "Active" /\ trigger'.state # "Active" =>
          call'.op = "apply_to_all" /\ call'.responses[1] = "Releases"
    /\ call'.op = "apply_to_all" /\ call'.responses[1] = "Releases" =>
          /\ trigger.state = "Active"
          /\ \E i \in TrackerIds :
                /\ Lifts(i, call'.events[1])
                /\ ActiveIn(trigger, i)
                /\ trigger'.trackers[i].state = Inactive

\* C16: while the trigger state is Active every tracker is Active(Never),
\* with a period too; no wakeup, with any token, changes anything then; and
\* Releases is returned only by an apply whose event takes a tracker of its
\* key out of its range, never upon a wakeup.
C16_ActiveNeverExpires ==
    /\ [](C16_State)
    /\ [][C16_Step]_vars

\* A wakeup with the token of the first tracker's activation while the
\* trigger, which has a period, is Active.
C16_Witness ==
    /\ trigger.period # None
    /\ Len(trigger.trackers) >= 2
    /\ trigger.state = "Active"
    /\ call.op = "wakeup"
    /\ hist.act_token[1] = Until(call.token)

\* The trackers match pairwise distinct keys.
DistinctKeys ==
    \A i, j \in TrackerIds :
        trigger.trackers[i].key = trigger.trackers[j].key => i = j

\* Every tracker's latest matching event, if any, was outside its range.
AllReleased == \A i \in TrackerIds : ~hist.held[i]

\* The first k trackers of trigger t are active, the others Inactive, and
\* the trigger state is Inactive.
InOrderPrefix(t, k) ==
    /\ t.state = "Inactive"
    /\ \A i \in DOMAIN t.trackers :
          IF i <= k THEN ActiveIn(t, i) ELSE t.trackers[i].state = Inactive

\* Once every tracker is released, all trackers and the trigger are Inactive.
C20_Released ==
    DistinctKeys /\ AllReleased => InOrderPrefix(trigger, 0)

\* With the first k trackers active and the others Inactive, an event that
\* activates tracker k + 1 leaves the first k + 1 active and the others
\* Inactive, and for the last tracker apply returns Activates.
C20_Step ==
    DistinctKeys /\ call'.op = "apply_to_all" =>
        \A k \in 0..(Len(trigger.trackers) - 1) :
            InOrderPrefix(trigger, k) /\ Presses(k + 1, call'.events[1]) =>
                IF k + 1 < Len(trigger.trackers)
                THEN /\ call'.responses = <<"Matches">>
                     /\ InOrderPrefix(trigger', k + 1)
                ELSE /\ call'.responses = <<"Activates">>
                     /\ trigger'.state = "Active"

\* C20: in a trigger of pairwise distinct keys, sequential or not, with or
\* without period, once the latest matching event of every tracker was
\* outside its range, all trackers and the trigger state are Inactive,
\* whatever wakeups came in between; and from there each activating event
\* in configured order, with no wakeup in between, makes one more tracker
\* active, and the last of them makes apply return Activates. As apply takes
\* every event, no tracker stays Invalid and no trigger unable to activate.
C20_Recovers ==
    /\ [](C20_Released)
    /\ [][C20_Step]_vars

\* The last of three trackers of a sequential trigger with a period is
\* released, after the trigger has activated and the first two have been
\* released: all are Inactive, the last from Invalid.
C20_Witness ==
    /\ trigger.sequential /\ trigger.period # None
    /\ Len(trigger.trackers) = 3
    /\ Applied /\ Lifts(3, LastEvent) /\ LastResponse = "Matches"
    /\ AllReleased
    /\ \A i \in TrackerIds : hist.fired[i]
    /\ InOrderPrefix(trigger, 0)

\* Trigger c has the configuration of trigger t: period, sequential flag and
\* the trackers' keys and ranges, in order.
SameConfig(c, t) ==
    /\ c.period = t.period
    /\ c.sequential = t.sequential
    /\ DOMAIN c.trackers = DOMAIN t.trackers
    /\ \A i \in DOMAIN t.trackers :
          /\ c.trackers[i].key = t.trackers[i].key
          /\ c.trackers[i].range = t.trackers[i].range

\* What clone_empty returns and leaves alone, and which instance a call on
\* the source or on the clone leaves alone.
C14_Step ==
    /\ call'.op = "clone_empty" =>
          /\ clone'.tag = "Some"
          /\ SameConfig(clone'.value, trigger)
          /\ \A i \in TrackerIds : clone'.value.trackers[i].state = Inactive
          /\ clone'.value.state = "Inactive"
          /\ trigger' = trigger
    /\ call'.op \in {"clone.apply", "clone.wakeup"} => trigger' = trigger
    /\ call'.op \in {"apply_to_all", "wakeup"} => clone' = clone

\* C14: clone_empty, in any reachable state of the source, returns a trigger
\* with the period, the sequential flag and the trackers' keys and ranges of
\* the source, every tracker Inactive and the trigger state Inactive, and
\* leaves the source as it is; afterwards a call on one of the two leaves
\* the other as it is, and the clone keeps the configuration.
C14_CloneEmpty ==
    /\ [](clone # None => SameConfig(clone.value, trigger))
    /\ [][C14_Step]_vars

\* clone_empty of a sequential trigger with a period, both trackers Invalid.
C14_Witness ==
    /\ call.op = "clone_empty"
    /\ trigger.sequential
    /\ trigger.trackers[1].state = Invalid
    /\ trigger.trackers[2].state = Invalid
    /\ clone.value.trackers[1].state = Inactive
    /\ clone.value.trackers[2].state = Inactive
    /\ clone.value.period = Some(Period)

---------------------------------------------------------------------------
(* The properties of the hook's capabilities.                              *)

\* The input capabilities for which some tracker key answers Yes or Maybe.
MatchedCaps ==
    {call.caps[j] : j \in {j \in DOMAIN call.caps :
        \E i \in TrackerIds :
            call.matches[<<trigger.trackers[i].key.code, call.caps[j].code>>]
                \in {"Yes", "Maybe"}}}

\* What the send-keys add for them.
ExpectedCaps ==
    {Capability(SendKeys[k].code, c.domain, Range(Some(0), Some(1))) :
        k \in DOMAIN SendKeys, c \in MatchedCaps}

C18_ActivatingEventRecorded ==
    /\ event_dispatcher.activating_event =
          IF hist.activator = None THEN None
          ELSE Some(Mark(mark_withholdable, hist.activator.value, "Activates"))
    /\ trigger.state = "Active" => event_dispatcher.activating_event # None
    /\ ~hist.warned

\* A batch that activates and releases the hook after an earlier activation
\* by another event.
C18_Witness ==
    /\ call.op = "apply_to_all"
    /\ call.responses = <<"Activates", "Releases">>
    /\ hist.activator = Some(call.events[1])
    /\ call.prior # <<>>
    /\ events_out[Len(call.prior) + 1].code # 7

---------------------------------------------------------------------------
(* The properties of the hook's effects.                                   *)

\* What the effects of the on-activate or on-release list put on the State
\* when they run once, in registration order, with emitted events put out.
RanOnce(list, emitted) == [k \in 1..Len(list) |-> Ran(list[k], emitted)]

\* The State after inputs 1..i of the last call, if each Activates ran the
\* on-activate effects and each Releases the on-release effects, after the
\* output of that input, and nothing else ran.
RECURSIVE ExpectedState(_)
ExpectedState(i) ==
    IF i = 0 THEN <<>>
    ELSE ExpectedState(i - 1) \o
         (CASE call.responses[i] = "Activates" -> RanOnce(effects, Offset(i + 1))
            [] call.responses[i] = "Releases" -> RanOnce(release_effects, Offset(i + 1))
            [] OTHER -> <<>>)

C11_Applied ==
    call.op = "apply_to_all" => shared_state = ExpectedState(Len(call.events))

C11_WakeupStep ==
    call'.op = "wakeup" =>
        /\ shared_state' = shared_state
        /\ events_out' = events_out

\* C11: apply runs every on-activate effect once, in registration order, for
\* each Activates and every on-release effect once, in registration order,
\* for each Releases, after the output of that event has been appended, and
\* no effect for Matches or None; wakeup runs no effect and puts out no
\* event.
C11_EffectsOnTransitions ==
    /\ [](C11_Applied)
    /\ [][C11_WakeupStep]_vars

C11_Witness ==
    /\ call.op = "apply_to_all"
    /\ call.responses = <<"Matches", "Activates">>
    /\ effects = <<"a", "b">>
    /\ shared_state = <<Ran("a", Len(call.prior) + 4), Ran("b", Len(call.prior) + 4)>>

\* No tracker's key is that of the event.
Unmatched(event) == \A i \in TrackerIds : ~Concerns(i, event)

\* What apply does with an event that matches no tracker's key.
C17_Step ==
    call'.op = "apply_to_all" /\ Unmatched(call'.events[1]) =>
        /\ call'.responses = <<"None">>
        /\ trigger' = trigger
        /\ loopback' = loopback
        /\ event_dispatcher' = event_dispatcher
        /\ events_out' = call'.prior \o <<call'.events[1]>>
        /\ shared_state' = <<>>

\* C17: for an event that matches no tracker's key, Trigger::apply returns
\* None, no tracker and not the trigger state changes, no wakeup is asked
\* for, Hook::apply puts out that event as it is, without the Withholdable
\* flag added though mark_withholdable is set, and no effect runs; and apply
\* returns None for no other event.
C17_UnmatchedIsIgnored ==
    /\ [](Applied => (LastResponse = "None" <=> Unmatched(LastEvent)))
    /\ [][C17_Step]_vars

\* An unmatched event after the first tracker expired with the second still
\* active, in a sequential and marking hook with effects.
C17_Witness ==
    /\ Applied /\ Unmatched(LastEvent)
    /\ trigger.sequential
    /\ mark_withholdable
    /\ effects # <<>>
    /\ trigger.trackers[1].state = Invalid
    /\ trigger.trackers[2].state.tag = "Active"
    /\ events_out = call.prior \o <<LastEvent>>
    /\ LastEvent.flags = {}

=============================================================================
